---- MODULE Spec2Model ----
(***************************************************************************)
(* Model of package pg (github.com/x-ethr/pg), connection.go:              *)
(*                                                                         *)
(*   var Pool atomic.Pointer[pgxpool.Pool]                                 *)
(*   func Connection(ctx, uri): a pgxpool.Conn pointer and an error        *)
(*   func Disconnect(ctx, connection, tx)                                  *)
(*                                                                         *)
(* Every goroutine calling into the package is a process p \in Procs.      *)
(* Connection is not atomic: each access to the shared slot Pool and each  *)
(* call delegated to pgxpool is one step, so the model has every           *)
(* interleaving of concurrent callers.                                     *)
(***************************************************************************)
EXTENDS Naturals, Sequences, FiniteSets

\* ------------------------------------------------------------------ bounds
NumProcs == 2          \* goroutines calling into the package
MaxCalls == 3          \* calls (Connection or Disconnect) made in a run

Procs == 1 .. NumProcs

\* The DSN arguments a caller may pass: one that pgxpool.ParseConfig accepts,
\* one that it rejects.
DSNs == {"valid", "malformed"}

\* The error values that leave a call. "nil" is Go's nil error.
NoErr        == "nil"
ParseErr     == "ParseConfigError"
ConstructErr == "NewWithConfigError"
AcquireErr   == "AcquireError"

\* tx.Rollback's outcomes: nil, pgx.ErrTxClosed, any other error.
ErrTxClosed   == "ErrTxClosed"
RollbackOther == "RollbackError"
RollbackOutcomes == {NoErr, ErrTxClosed, RollbackOther}

\* slog entries of the package.
LogParse      == [level |-> "ERROR", msg |-> "Unable to Generate Configuration from DSN String"]
LogConstruct  == [level |-> "ERROR", msg |-> "Unable to Establish Pool Connection to Database"]
LogRollbackEr == [level |-> "ERROR", msg |-> "Error Rolling Back Transaction"]
LogCommitted  == [level |-> "INFO", msg |-> "Successfully Committed Database Transaction"]
LogRolledBack == [level |-> "INFO", msg |-> "Successfully Rolled Back Database Transaction"]

VARIABLES
    Pool,        \* the shared slot: 0 is nil, n > 0 is the n-th pool constructed
    pools,       \* every pool pgxpool.NewWithConfig has returned: its config and
                 \* the number of leases out
    pc,          \* where each goroutine is in its current call
    op,          \* the call a goroutine is in, or made last
    calls,       \* how many calls have been made to the package
    uri,         \* Connection's argument
    seen,        \* what Pool.Load() returned at the if of Connection
    instance,    \* Connection's local: the pool NewWithConfig returned
    loaded,      \* what Pool.Load() returned in Connection's return statement
    connection,  \* Disconnect's argument: 0 is nil, else the lease's pool
    tx,          \* Disconnect's argument: TRUE is a non-nil pgx.Tx
    txErr,       \* Disconnect's local e: what tx.Rollback returned
    ret,         \* the caller's `connection, e :=`: what its last Connection
                 \* call that returned gave it
    held,        \* the lease a goroutine holds: 0 is none, else its pool
    events,      \* the delegated calls and slot writes of the current call, in order
    logged       \* the slog entries of the current call, in order

\* The state DSN() reads and what it returned.
VARIABLES
    env,         \* the process environment: the variables set, with their values
    cpu,         \* runtime.NumCPU()
    build,       \* which of the repository's two copies of DSN is built
    dsn          \* what DSN() returned, <<>> before the call

dsnVars == <<env, cpu, build, dsn>>

vars == <<Pool, pools, pc, op, calls, uri, seen, instance, loaded, connection,
          tx, txErr, ret, held, events, logged, env, cpu, build, dsn>>

NoRet == [conn |-> 0, err |-> NoErr]

\* The package at rest: the slot empty, no call made.
ConnectionInit ==
    /\ Pool = 0
    /\ pools = <<>>
    /\ pc = [p \in Procs |-> "idle"]
    /\ op = [p \in Procs |-> "none"]
    /\ calls = 0
    /\ uri = [p \in Procs |-> "valid"]
    /\ seen = [p \in Procs |-> 0]
    /\ instance = [p \in Procs |-> 0]
    /\ loaded = [p \in Procs |-> 0]
    /\ connection = [p \in Procs |-> 0]
    /\ tx = [p \in Procs |-> FALSE]
    /\ txErr = [p \in Procs |-> NoErr]
    /\ ret = [p \in Procs |-> NoRet]
    /\ held = [p \in Procs |-> 0]
    /\ events = [p \in Procs |-> <<>>]
    /\ logged = [p \in Procs |-> <<>>]

\* No environment variable set, DSN() not called.
NoEnv == [k \in {} |-> <<>>]
NoDSN == <<>>

Init ==
    /\ ConnectionInit
    /\ env = NoEnv
    /\ cpu = 1
    /\ build = "connection.go"
    /\ dsn = NoDSN

\* pgxpool.ParseConfig: an error for a DSN it cannot parse, else a config.
ParseConfig(u) ==
    IF u = "malformed" THEN [cfg |-> "none", err |-> ParseErr]
                       ELSE [cfg |-> u, err |-> NoErr]

\* ------------------------------------------------------------- Connection

\* Mutant of Connection: an initialization failure is remembered, and the
\* goroutine's next call returns it without parsing or constructing.
ConnectionCached(p, u) ==
    /\ pc[p] = "idle"
    /\ calls < MaxCalls
    /\ held[p] = 0
    /\ calls' = calls + 1
    /\ op' = [op EXCEPT ![p] = "Connection"]
    /\ uri' = [uri EXCEPT ![p] = u]
    /\ seen' = [seen EXCEPT ![p] = Pool]
    /\ instance' = [instance EXCEPT ![p] = 0]
    /\ loaded' = [loaded EXCEPT ![p] = 0]
    /\ connection' = [connection EXCEPT ![p] = 0]
    /\ tx' = [tx EXCEPT ![p] = FALSE]
    /\ txErr' = [txErr EXCEPT ![p] = NoErr]
    /\ events' = [events EXCEPT ![p] = <<>>]
    /\ logged' = [logged EXCEPT ![p] = <<>>]
    /\ pc' = [pc EXCEPT ![p] = IF Pool # 0 THEN "load"
                               ELSE IF ret[p].err \in {ParseErr, ConstructErr}
                                      THEN "idle" ELSE "parse"]
    /\ UNCHANGED <<Pool, pools, ret, held>>
    /\ UNCHANGED dsnVars

\* Mutant of Connection: no `Pool.Load() == nil` test, every call initializes.
ConnectionNoCheck(p, u) ==
    /\ pc[p] = "idle"
    /\ calls < MaxCalls
    /\ held[p] = 0
    /\ calls' = calls + 1
    /\ op' = [op EXCEPT ![p] = "Connection"]
    /\ uri' = [uri EXCEPT ![p] = u]
    /\ seen' = [seen EXCEPT ![p] = Pool]
    /\ instance' = [instance EXCEPT ![p] = 0]
    /\ loaded' = [loaded EXCEPT ![p] = 0]
    /\ connection' = [connection EXCEPT ![p] = 0]
    /\ tx' = [tx EXCEPT ![p] = FALSE]
    /\ txErr' = [txErr EXCEPT ![p] = NoErr]
    /\ events' = [events EXCEPT ![p] = <<>>]
    /\ logged' = [logged EXCEPT ![p] = <<>>]
    /\ pc' = [pc EXCEPT ![p] = "parse"]
    /\ UNCHANGED <<Pool, pools, ret, held>>
    /\ UNCHANGED dsnVars

\* A goroutine calls Connection(ctx, u) and evaluates `Pool.Load() == nil`.
\* Callers hold one lease at a time: a goroutine that holds one releases it
\* through Disconnect before it asks for another.
Connection(p, u) ==
    /\ pc[p] = "idle"
    /\ calls < MaxCalls
    /\ held[p] = 0
    /\ calls' = calls + 1
    /\ op' = [op EXCEPT ![p] = "Connection"]
    /\ uri' = [uri EXCEPT ![p] = u]
    /\ seen' = [seen EXCEPT ![p] = Pool]
    /\ instance' = [instance EXCEPT ![p] = 0]
    /\ loaded' = [loaded EXCEPT ![p] = 0]
    /\ connection' = [connection EXCEPT ![p] = 0]
    /\ tx' = [tx EXCEPT ![p] = FALSE]
    /\ txErr' = [txErr EXCEPT ![p] = NoErr]
    /\ events' = [events EXCEPT ![p] = <<>>]
    /\ logged' = [logged EXCEPT ![p] = <<>>]
    /\ pc' = [pc EXCEPT ![p] = IF Pool = 0 THEN "parse" ELSE "load"]
    /\ UNCHANGED <<Pool, pools, ret, held>>
    /\ UNCHANGED dsnVars

\* Mutant of Parse: the `return nil, e` after the log entry is missing.
ParseNoReturn(p) ==
    /\ pc[p] = "parse"
    /\ events' = [events EXCEPT ![p] = Append(@, "parse")]
    /\ IF ParseConfig(uri[p]).err # NoErr
         THEN logged' = [logged EXCEPT ![p] = Append(@, LogParse)]
         ELSE UNCHANGED logged
    /\ pc' = [pc EXCEPT ![p] = "construct"]
    /\ UNCHANGED <<Pool, pools, op, calls, uri, seen, instance, loaded,
                   connection, tx, txErr, ret, held>>
    /\ UNCHANGED dsnVars

\* configuration, e := pgxpool.ParseConfig(uri); on error: log, return nil, e.
Parse(p) ==
    /\ pc[p] = "parse"
    /\ events' = [events EXCEPT ![p] = Append(@, "parse")]
    /\ IF ParseConfig(uri[p]).err # NoErr
         THEN /\ logged' = [logged EXCEPT ![p] = Append(@, LogParse)]
              /\ ret' = [ret EXCEPT ![p] = [conn |-> 0, err |-> ParseConfig(uri[p]).err]]
              /\ pc' = [pc EXCEPT ![p] = "idle"]
         ELSE /\ pc' = [pc EXCEPT ![p] = "construct"]
              /\ UNCHANGED <<logged, ret>>
    /\ UNCHANGED <<Pool, pools, op, calls, uri, seen, instance, loaded,
                   connection, tx, txErr, held>>
    /\ UNCHANGED dsnVars

\* Mutant of NewWithConfig: the `return nil, e` after the log entry is
\* missing, and the nil instance goes on to Pool.Store.
NewWithConfigNoReturn(p) ==
    /\ pc[p] = "construct"
    /\ events' = [events EXCEPT ![p] = Append(@, "construct")]
    /\ \E ok \in BOOLEAN :
         IF ok
           THEN /\ pools' = Append(pools, [cfg |-> ParseConfig(uri[p]).cfg, leased |-> 0])
                /\ instance' = [instance EXCEPT ![p] = Len(pools) + 1]
                /\ UNCHANGED logged
           ELSE /\ logged' = [logged EXCEPT ![p] = Append(@, LogConstruct)]
                /\ UNCHANGED <<pools, instance>>
    /\ pc' = [pc EXCEPT ![p] = "store"]
    /\ UNCHANGED <<Pool, op, calls, uri, seen, loaded, connection, tx, txErr,
                   ret, held>>
    /\ UNCHANGED dsnVars

\* instance, e := pgxpool.NewWithConfig(ctx, configuration); on error: log,
\* return nil, e. Whether the construction succeeds is pgxpool's.
NewWithConfig(p) ==
    /\ pc[p] = "construct"
    /\ events' = [events EXCEPT ![p] = Append(@, "construct")]
    /\ \E ok \in BOOLEAN :
         IF ok
           THEN /\ pools' = Append(pools, [cfg |-> ParseConfig(uri[p]).cfg, leased |-> 0])
                /\ instance' = [instance EXCEPT ![p] = Len(pools) + 1]
                /\ pc' = [pc EXCEPT ![p] = "store"]
                /\ UNCHANGED <<logged, ret>>
           ELSE /\ logged' = [logged EXCEPT ![p] = Append(@, LogConstruct)]
                /\ ret' = [ret EXCEPT ![p] = [conn |-> 0, err |-> ConstructErr]]
                /\ pc' = [pc EXCEPT ![p] = "idle"]
                /\ UNCHANGED <<pools, instance>>
    /\ UNCHANGED <<Pool, op, calls, uri, seen, loaded, connection, tx, txErr,
                   held>>
    /\ UNCHANGED dsnVars

\* Pool.Store(instance)
Store(p) ==
    /\ pc[p] = "store"
    /\ Pool' = instance[p]
    /\ events' = [events EXCEPT ![p] = Append(@, "store")]
    /\ pc' = [pc EXCEPT ![p] = "load"]
    /\ UNCHANGED <<pools, op, calls, uri, seen, instance, loaded, connection,
                   tx, txErr, ret, held, logged>>
    /\ UNCHANGED dsnVars

\* Mutant of Load: the goroutine waits until no other goroutine is
\* initializing the pool before it reads the slot.
LoadWaits(p) ==
    /\ pc[p] = "load"
    /\ \A q \in Procs \ {p} : pc[q] \notin {"parse", "construct", "store"}
    /\ loaded' = [loaded EXCEPT ![p] = Pool]
    /\ events' = [events EXCEPT ![p] = Append(@, "load")]
    /\ pc' = [pc EXCEPT ![p] = IF Pool = 0 THEN "panic" ELSE "acquire"]
    /\ UNCHANGED <<Pool, pools, op, calls, uri, seen, instance, connection,
                   tx, txErr, ret, held, logged>>
    /\ UNCHANGED dsnVars

\* The Pool.Load() of `return Pool.Load().Acquire(ctx)`. Acquire on a nil
\* pool pointer is a nil dereference: the goroutine panics.
Load(p) ==
    /\ pc[p] = "load"
    /\ loaded' = [loaded EXCEPT ![p] = Pool]
    /\ events' = [events EXCEPT ![p] = Append(@, "load")]
    /\ pc' = [pc EXCEPT ![p] = IF Pool = 0 THEN "panic" ELSE "acquire"]
    /\ UNCHANGED <<Pool, pools, op, calls, uri, seen, instance, connection,
                   tx, txErr, ret, held, logged>>
    /\ UNCHANGED dsnVars

\* Mutant of Acquire: a failed acquisition is logged like the other failures.
AcquireLogsFailure(p) ==
    /\ pc[p] = "acquire"
    /\ events' = [events EXCEPT ![p] = Append(@, "acquire")]
    /\ \E ok \in BOOLEAN :
         IF ok
           THEN /\ pools' = [pools EXCEPT ![loaded[p]].leased = @ + 1]
                /\ ret' = [ret EXCEPT ![p] = [conn |-> loaded[p], err |-> NoErr]]
                /\ held' = [held EXCEPT ![p] = loaded[p]]
                /\ UNCHANGED logged
           ELSE /\ ret' = [ret EXCEPT ![p] = [conn |-> 0, err |-> AcquireErr]]
                /\ logged' = [logged EXCEPT ![p] = Append(@, LogConstruct)]
                /\ UNCHANGED <<pools, held>>
    /\ pc' = [pc EXCEPT ![p] = "idle"]
    /\ UNCHANGED <<Pool, op, calls, uri, seen, instance, loaded, connection,
                   tx, txErr>>
    /\ UNCHANGED dsnVars

\* The Acquire(ctx) of `return Pool.Load().Acquire(ctx)`, on the pool loaded:
\* its result is returned as it is. Whether it succeeds is pgxpool's.
Acquire(p) ==
    /\ pc[p] = "acquire"
    /\ events' = [events EXCEPT ![p] = Append(@, "acquire")]
    /\ \E ok \in BOOLEAN :
         IF ok
           THEN /\ pools' = [pools EXCEPT ![loaded[p]].leased = @ + 1]
                /\ ret' = [ret EXCEPT ![p] = [conn |-> loaded[p], err |-> NoErr]]
                /\ held' = [held EXCEPT ![p] = loaded[p]]
           ELSE /\ ret' = [ret EXCEPT ![p] = [conn |-> 0, err |-> AcquireErr]]
                /\ UNCHANGED <<pools, held>>
    /\ pc' = [pc EXCEPT ![p] = "idle"]
    /\ UNCHANGED <<Pool, op, calls, uri, seen, instance, loaded, connection,
                   tx, txErr, logged>>
    /\ UNCHANGED dsnVars

\* ------------------------------------------------------------- Disconnect

\* Mutant of Disconnect: no `tx != nil` test, the rollback is always attempted.
DisconnectNoNilCheck(p, c, t) ==
    /\ pc[p] = "idle"
    /\ calls < MaxCalls
    /\ calls' = calls + 1
    /\ op' = [op EXCEPT ![p] = "Disconnect"]
    /\ connection' = [connection EXCEPT ![p] = c]
    /\ tx' = [tx EXCEPT ![p] = t]
    /\ txErr' = [txErr EXCEPT ![p] = NoErr]
    /\ events' = [events EXCEPT ![p] = <<>>]
    /\ logged' = [logged EXCEPT ![p] = <<>>]
    /\ pc' = [pc EXCEPT ![p] = "rollback"]
    /\ uri' = [uri EXCEPT ![p] = "valid"]
    /\ seen' = [seen EXCEPT ![p] = 0]
    /\ instance' = [instance EXCEPT ![p] = 0]
    /\ loaded' = [loaded EXCEPT ![p] = 0]
    /\ UNCHANGED <<Pool, pools, ret, held>>
    /\ UNCHANGED dsnVars

\* A goroutine calls Disconnect(ctx, c, t) and evaluates `tx != nil`, and with
\* a nil tx `connection != nil`; with both nil the call returns.
\* The connection passed is nil or the lease the goroutine holds.
Disconnect(p, c, t) ==
    /\ pc[p] = "idle"
    /\ calls < MaxCalls
    /\ calls' = calls + 1
    /\ op' = [op EXCEPT ![p] = "Disconnect"]
    /\ connection' = [connection EXCEPT ![p] = c]
    /\ tx' = [tx EXCEPT ![p] = t]
    /\ txErr' = [txErr EXCEPT ![p] = NoErr]
    /\ events' = [events EXCEPT ![p] = <<>>]
    /\ logged' = [logged EXCEPT ![p] = <<>>]
    /\ pc' = [pc EXCEPT ![p] = IF t THEN "rollback"
                               ELSE IF c # 0 THEN "release" ELSE "idle"]
    /\ uri' = [uri EXCEPT ![p] = "valid"]
    /\ seen' = [seen EXCEPT ![p] = 0]
    /\ instance' = [instance EXCEPT ![p] = 0]
    /\ loaded' = [loaded EXCEPT ![p] = 0]
    /\ UNCHANGED <<Pool, pools, ret, held>>
    /\ UNCHANGED dsnVars

\* Mutant of RollbackLog: no errors.Is(e, pgx.ErrTxClosed), every error is
\* logged as an error.
RollbackLogNoIs(e) ==
    IF e # NoErr THEN LogRollbackEr ELSE LogRolledBack

\* The entry Disconnect logs for a rollback outcome e.
RollbackLog(e) ==
    IF e # NoErr /\ e # ErrTxClosed THEN LogRollbackEr
    ELSE IF e # NoErr /\ e = ErrTxClosed THEN LogCommitted
    ELSE LogRolledBack

\* Mutant of Rollback: Disconnect returns after logging a rollback error,
\* leaving the connection unreleased.
RollbackReturnsOnError(p) ==
    /\ pc[p] = "rollback"
    /\ \E e \in RollbackOutcomes :
         /\ txErr' = [txErr EXCEPT ![p] = e]
         /\ events' = [events EXCEPT ![p] = Append(@, "rollback")]
         /\ logged' = [logged EXCEPT ![p] = Append(@, RollbackLog(e))]
         /\ pc' = [pc EXCEPT ![p] = IF connection[p] # 0 /\ e # RollbackOther
                                      THEN "release" ELSE "idle"]
    /\ UNCHANGED <<Pool, pools, op, calls, uri, seen, instance, loaded,
                   connection, tx, ret, held>>
    /\ UNCHANGED dsnVars

\* e := tx.Rollback(ctx), the log entry for e, then `connection != nil`.
Rollback(p) ==
    /\ pc[p] = "rollback"
    /\ \E e \in RollbackOutcomes :
         /\ txErr' = [txErr EXCEPT ![p] = e]
         /\ events' = [events EXCEPT ![p] = Append(@, "rollback")]
         /\ logged' = [logged EXCEPT ![p] = Append(@, RollbackLog(e))]
    /\ pc' = [pc EXCEPT ![p] = IF connection[p] # 0 THEN "release" ELSE "idle"]
    /\ UNCHANGED <<Pool, pools, op, calls, uri, seen, instance, loaded,
                   connection, tx, ret, held>>
    /\ UNCHANGED dsnVars

\* connection.Release(): the lease goes back to its pool.
Release(p) ==
    /\ pc[p] = "release"
    /\ events' = [events EXCEPT ![p] = Append(@, "release")]
    /\ pools' = [pools EXCEPT ![connection[p]].leased = @ - 1]
    /\ held' = [held EXCEPT ![p] = 0]
    /\ pc' = [pc EXCEPT ![p] = "idle"]
    /\ UNCHANGED <<Pool, op, calls, uri, seen, instance, loaded, connection,
                   tx, txErr, ret, logged>>
    /\ UNCHANGED dsnVars

\* ------------------------------------------------------------------- Next

Next ==
    \E p \in Procs :
        \/ \E u \in DSNs : Connection(p, u)
        \/ Parse(p)
        \/ NewWithConfig(p)
        \/ Store(p)
        \/ Load(p)
        \/ Acquire(p)
        \/ \E c \in {0, held[p]}, t \in BOOLEAN : Disconnect(p, c, t)
        \/ Rollback(p)
        \/ Release(p)

Spec == Init /\ [][Next]_vars

\* -------------------------------------------------------------------- DSN
\* Strings are sequences of characters. In DSN's result the scheme and the
\* query keys, which hold letters and underscores only and are written as
\* they are, are one token each.

MaxVars == 2           \* environment variables set at the same time

\* The values of runtime.NumCPU(): below 4, 4, above 4, and of two digits.
CPUs == {1, 4, 5, 16}

\* The environment variables DSN() reads.
EnvVars == {"PGHOST", "PGUSER", "PGPASSWORD", "PGPORT", "PGCONNECT_TIMEOUT",
            "PGAPPNAME", "PGSSLMODE", "PGSSLCERTMODE", "PGSSLROOTCERT",
            "PGPOOLMAXCONNECTIONS", "PGPOOLMINCONNECTIONS", "PGTZ"}

\* The values a variable is set to: empty, whitespace-only, plain, and one
\* with whitespace around and every character that a URL escapes.
Localhost == <<"l", "o", "c", "a", "l", "h", "o", "s", "t">>
Special   == <<" ", "a", "&", "=", "%", "+", "/", "?", " ">>
Blanks    == <<"\t", " ">>
EnvValues == {<<>>, Blanks, Localhost, Special}

\* The two copies of DSN in the repository: connection.go, and the unnamed
\* copy that also reads PGSSLCERTMODE.
Builds == {"connection.go", "part_002"}

\* os.Getenv: the empty string for a variable that is not set.
Getenv(k) == IF k \in DOMAIN env THEN env[k] ELSE <<>>

\* strings.TrimSpace
IsSpace(c) == c \in {" ", "\t"}

RECURSIVE TrimLeft(_)
TrimLeft(v) ==
    IF v # <<>> /\ IsSpace(v[1]) THEN TrimLeft(Tail(v)) ELSE v

RECURSIVE TrimRight(_)
TrimRight(v) ==
    IF v # <<>> /\ IsSpace(v[Len(v)]) THEN TrimRight(SubSeq(v, 1, Len(v) - 1))
                                       ELSE v

TrimSpace(v) == TrimRight(TrimLeft(v))

\* strconv.Itoa of a number >= 0
Digit(d) == <<"0", "1", "2", "3", "4", "5", "6", "7", "8", "9">>[d + 1]

RECURSIVE Itoa(_)
Itoa(n) ==
    IF n < 10 THEN <<Digit(n)>> ELSE Itoa(n \div 10) \o <<Digit(n % 10)>>

\* Mutant of Host: a whitespace-only PGHOST gets the default too.
HostTrimmed ==
    IF TrimSpace(Getenv("PGHOST")) = <<>> THEN Localhost ELSE Getenv("PGHOST")

\* uri.Host: PGHOST, "localhost" when it is empty.
Host ==
    IF Getenv("PGHOST") = <<>> THEN Localhost ELSE Getenv("PGHOST")

\* Mutant of Port: no default.
PortNoDefault == Getenv("PGPORT")

\* port: PGPORT, "5432" when it is empty.
Port ==
    IF Getenv("PGPORT") = <<>> THEN <<"5", "4", "3", "2">> ELSE Getenv("PGPORT")

\* timeout: PGCONNECT_TIMEOUT, "10" when it is empty.
Timeout ==
    IF Getenv("PGCONNECT_TIMEOUT") = <<>> THEN <<"1", "0">>
                                          ELSE Getenv("PGCONNECT_TIMEOUT")

\* Mutant of MaxConnsDefault: the comparison is turned around.
MaxConnsDefaultMin(n) == Itoa(IF 4 > n THEN n ELSE 4)

\* value, cpu := 4, runtime.NumCPU(); if value < cpu { value = cpu };
\* strconv.Itoa(value)
MaxConnsDefault(n) == Itoa(IF 4 < n THEN n ELSE 4)

\* maxconnections: PGPOOLMAXCONNECTIONS, the default when it is empty.
MaxConnections ==
    IF Getenv("PGPOOLMAXCONNECTIONS") = <<>> THEN MaxConnsDefault(cpu)
                                             ELSE Getenv("PGPOOLMAXCONNECTIONS")

\* minconnections: PGPOOLMINCONNECTIONS, strconv.Itoa(1) when it is empty.
MinConnections ==
    IF Getenv("PGPOOLMINCONNECTIONS") = <<>> THEN Itoa(1)
                                             ELSE Getenv("PGPOOLMINCONNECTIONS")

\* tz: PGTZ, "UTC" when it is empty. DSN never uses it.
Tz == IF Getenv("PGTZ") = <<>> THEN <<"U", "T", "C">> ELSE Getenv("PGTZ")

\* The query.Add calls of build b, in order: key and value.
Added(b) ==
    << <<"user", Getenv("PGUSER")>>,
       <<"password", Getenv("PGPASSWORD")>>,
       <<"port", Port>>,
       <<"connect_timeout", Timeout>>,
       <<"application_name", Getenv("PGAPPNAME")>>,
       <<"pool_max_conns", MaxConnections>>,
       <<"pool_min_conns", MinConnections>>,
       <<"sslmode", Getenv("PGSSLMODE")>> >>
    \o (IF b = "part_002" THEN << <<"sslcertmode", Getenv("PGSSLCERTMODE")>> >>
                          ELSE << >>)
    \o << <<"sslrootcert", Getenv("PGSSLROOTCERT")>> >>

\* uri.Query() of a URL with no RawQuery: no key.
EmptyQuery == [k \in {} |-> <<>>]

\* url.Values.Add: the value is appended to the key's list.
QueryAdd(q, k, v) ==
    [x \in DOMAIN q \cup {k} |->
        IF x = k THEN (IF k \in DOMAIN q THEN q[k] ELSE <<>>) \o <<v>>
                 ELSE q[x]]

RECURSIVE QueryAddAll(_, _)
QueryAddAll(q, adds) ==
    IF adds = <<>> THEN q
    ELSE QueryAddAll(QueryAdd(q, adds[1][1], adds[1][2]), Tail(adds))

\* Mutant of Deleted: the values are compared to "" without strings.TrimSpace.
DeletedNoTrim(values) == Len(values) >= 1 /\ values[1] = <<>>

\* len(values) >= 1 && strings.TrimSpace(values[0]) == ""
Deleted(values) == Len(values) >= 1 /\ TrimSpace(values[1]) = <<>>

\* The loop over the query: query.Del(key) for every key Deleted holds of.
QueryFilter(q) ==
    [x \in {k \in DOMAIN q : ~Deleted(q[k])} |-> q[x]]

\* The query of build b after the loop.
Query(b) == QueryFilter(QueryAddAll(EmptyQuery, Added(b)))

\* The two hexadecimal digits net/url writes after "%" for a character.
HexOf(c) ==
    CASE c = " "  -> <<"2", "0">>
      [] c = "\t" -> <<"0", "9">>
      [] c = "%"  -> <<"2", "5">>
      [] c = "&"  -> <<"2", "6">>
      [] c = "+"  -> <<"2", "B">>
      [] c = "/"  -> <<"2", "F">>
      [] c = "="  -> <<"3", "D">>
      [] c = "?"  -> <<"3", "F">>

\* The characters of the model that net/url never writes as they are in a
\* query component.
Reserved == {" ", "\t", "%", "&", "+", "/", "=", "?"}

\* url.QueryEscape: a space is "+", a reserved character is %XX.
RECURSIVE QueryEscape(_)
QueryEscape(v) ==
    IF v = <<>> THEN <<>>
    ELSE (IF v[1] = " " THEN <<"+">>
          ELSE IF v[1] \in Reserved THEN <<"%">> \o HexOf(v[1])
          ELSE <<v[1]>>) \o QueryEscape(Tail(v))

\* escape(host, encodeHost): "&", "+" and "=" stay, a space is %20.
RECURSIVE HostEscape(_)
HostEscape(v) ==
    IF v = <<>> THEN <<>>
    ELSE (IF v[1] \in Reserved \ {"&", "+", "="} THEN <<"%">> \o HexOf(v[1])
          ELSE <<v[1]>>) \o HostEscape(Tail(v))

\* sort.Strings of the query keys.
KeyOrder == <<"application_name", "connect_timeout", "password",
              "pool_max_conns", "pool_min_conns", "port", "sslcertmode",
              "sslmode", "sslrootcert", "user">>

\* key=value for every value of key k, each after a "&".
RECURSIVE EncodeKey(_, _)
EncodeKey(k, values) ==
    IF values = <<>> THEN <<>>
    ELSE <<"&", k, "=">> \o QueryEscape(values[1]) \o EncodeKey(k, Tail(values))

RECURSIVE EncodeFrom(_, _)
EncodeFrom(q, i) ==
    IF i > Len(KeyOrder) THEN <<>>
    ELSE (IF KeyOrder[i] \in DOMAIN q THEN EncodeKey(KeyOrder[i], q[KeyOrder[i]])
                                      ELSE <<>>) \o EncodeFrom(q, i + 1)

\* url.Values.Encode: the keys sorted, "&" between the pairs.
Encode(q) ==
    IF EncodeFrom(q, 1) = <<>> THEN <<>> ELSE Tail(EncodeFrom(q, 1))

\* url.URL.String of {Scheme, Host, RawQuery}: the host is never empty.
String(scheme, host, rawQuery) ==
    <<scheme, ":", "/", "/">> \o HostEscape(host)
        \o (IF rawQuery # <<>> THEN <<"?">> \o rawQuery ELSE <<>>)

\* DSN() of build b.
DSN(b) == String("postgresql", Host, Encode(Query(b)))

\* The connection state, which DSN() does not touch.
connVars == <<Pool, pools, pc, op, calls, uri, seen, instance, loaded,
              connection, tx, txErr, ret, held, events, logged>>

\* os.Setenv(k, v), by the process or its parent, before DSN() is called.
Setenv(k, v) ==
    /\ dsn = NoDSN
    /\ k \in DOMAIN env \/ Cardinality(DOMAIN env) < MaxVars
    /\ env' = [x \in DOMAIN env \cup {k} |-> IF x = k THEN v ELSE env[x]]
    /\ UNCHANGED <<cpu, build, dsn, connVars>>

\* os.Unsetenv(k), before DSN() is called.
Unsetenv(k) ==
    /\ dsn = NoDSN
    /\ k \in DOMAIN env
    /\ env' = [x \in DOMAIN env \ {k} |-> env[x]]
    /\ UNCHANGED <<cpu, build, dsn, connVars>>

\* v := DSN(), in the environment as it is then.
CallDSN ==
    /\ dsn = NoDSN
    /\ dsn' = DSN(build)
    /\ UNCHANGED <<env, cpu, build, connVars>>

InitDSN ==
    /\ ConnectionInit
    /\ env = NoEnv
    /\ cpu \in CPUs
    /\ build \in Builds
    /\ dsn = NoDSN

NextDSN ==
    \/ \E k \in EnvVars, v \in EnvValues : Setenv(k, v)
    \/ \E k \in EnvVars : Unsetenv(k)
    \/ CallDSN

SpecDSN == InitDSN /\ [][NextDSN]_vars

\* ------------------------------------------------------ reading a DSN back
\* What a reader of the URI finds in it, as net/url parses it: the scheme,
\* the host up to the first "?", and the parameters of the query after it.

RECURSIVE IndexFrom(_, _, _)
IndexFrom(v, x, i) ==
    IF i > Len(v) THEN 0 ELSE IF v[i] = x THEN i ELSE IndexFrom(v, x, i + 1)

\* The place of the first x in v, 0 when there is none.
FirstIndex(v, x) == IndexFrom(v, x, 1)

RECURSIVE SplitOn(_, _)
SplitOn(v, x) ==
    LET i == FirstIndex(v, x)
    IN  IF i = 0 THEN <<v>>
        ELSE <<SubSeq(v, 1, i - 1)>> \o SplitOn(SubSeq(v, i + 1, Len(v)), x)

\* The character %XY stands for.
Unhex(a, b) == CHOOSE c \in Reserved : HexOf(c) = <<a, b>>

\* Percent-decoding; in a query component "+" is a space.
RECURSIVE Unescape(_, _)
Unescape(v, plus) ==
    IF v = <<>> THEN <<>>
    ELSE IF v[1] = "%" /\ Len(v) >= 3
           THEN <<Unhex(v[2], v[3])>> \o Unescape(SubSeq(v, 4, Len(v)), plus)
    ELSE IF v[1] = "+" /\ plus THEN <<" ">> \o Unescape(Tail(v), plus)
    ELSE <<v[1]>> \o Unescape(Tail(v), plus)

SchemeOf(r) == r[1]

AfterScheme(r) == SubSeq(r, 5, Len(r))

HostOf(r) ==
    LET rest == AfterScheme(r)
        i    == FirstIndex(rest, "?")
    IN  Unescape(IF i = 0 THEN rest ELSE SubSeq(rest, 1, i - 1), FALSE)

RawQueryOf(r) ==
    LET i == FirstIndex(r, "?")
    IN  IF i = 0 THEN <<>> ELSE SubSeq(r, i + 1, Len(r))

\* The key and the value of one key=value piece of the query.
Pair(piece) ==
    LET i == FirstIndex(piece, "=")
    IN  IF i = 0 THEN <<piece[1], <<>> >>
        ELSE <<piece[1], Unescape(SubSeq(piece, i + 1, Len(piece)), TRUE)>>

\* The parameters of the query: the set of its (key, value) pairs.
Params(r) ==
    LET pieces == SplitOn(RawQueryOf(r), "&")
    IN  {Pair(pieces[i]) : i \in {j \in 1 .. Len(pieces) : pieces[j] # <<>>}}

\* The keys of a set of parameters, and the values key k has in it.
KeysOf(ps)      == {pr[1] : pr \in ps}
ValuesOf(ps, k) == {pr[2] : pr \in {x \in ps : x[1] = k}}

\* Empty or whitespace-only.
Blank(v) == \A i \in 1 .. Len(v) : IsSpace(v[i])

Called == dsn # NoDSN

\* ----------------------------------------------------------------- claims

\* The call goroutine p is in, or made last.
InConnection(p)   == op[p] = "Connection"
InDisconnect(p)   == op[p] = "Disconnect"
ConnectionDone(p) == op[p] = "Connection" /\ pc[p] = "idle"
DisconnectDone(p) == op[p] = "Disconnect" /\ pc[p] = "idle"

Count(s, x) == Cardinality({i \in 1 .. Len(s) : s[i] = x})
Has(s, x)   == \E i \in 1 .. Len(s) : s[i] = x
IsPrefix(s, t) == Len(s) <= Len(t) /\ \A i \in 1 .. Len(s) : s[i] = t[i]

\* A first-time call: Connection with a valid DSN that found the slot empty.
FirstTime(p) == InConnection(p) /\ seen[p] = 0 /\ uri[p] = "valid"

\* C1: when every call made is a first-time Connection call with a valid DSN,
\* pgxpool.NewWithConfig completes successfully at most once over the run: no
\* two pools are ever constructed.
C1_OneConstruction ==
    (\A p \in Procs : op[p] = "none" \/ FirstTime(p)) => Len(pools) <= 1

\* C2: once the slot holds a pool it holds that same pool forever: no step
\* replaces the value of a non-empty slot or resets it to empty.
C2_SlotWrittenOnce == [][Pool # 0 => Pool' = Pool]_vars

\* C5 (its safety half): when every goroutine has made a first-time call that
\* returned a lease with no error, every lease was acquired from the single
\* pool held in the slot.
C5_LeasesFromTheOnePool ==
    (\A p \in Procs : FirstTime(p) /\ pc[p] = "idle" /\ ret[p].err = NoErr)
        => \A p \in Procs : ret[p].conn = Pool

\* C3: a Connection call that fails at DSN parsing or at pool construction
\* returns a nil connection with that error and has not written the slot; a
\* call with a valid DSN that finds the slot empty constructs again, whatever
\* the goroutine's earlier calls returned, and it returns a lease unless
\* pgxpool itself fails.
C3_FailureLeavesSlotEmpty ==
    \A p \in Procs :
        /\ (ConnectionDone(p) /\ ret[p].err \in {ParseErr, ConstructErr})
              => /\ ret[p].conn = 0
                 /\ seen[p] = 0
                 /\ ~Has(events[p], "store")
        /\ (ConnectionDone(p) /\ seen[p] = 0 /\ uri[p] = "malformed")
              => ret[p] = [conn |-> 0, err |-> ParseErr]
        /\ (InConnection(p) /\ seen[p] = 0 /\ uri[p] = "valid"
                /\ pc[p] \notin {"parse", "construct"})
              => Has(events[p], "construct")
        /\ (ConnectionDone(p) /\ seen[p] = 0 /\ uri[p] = "valid")
              => /\ ret[p].err \in {NoErr, ConstructErr, AcquireErr}
                 /\ ret[p].err = NoErr => ret[p].conn # 0

\* C3's case: a goroutine whose last call failed in initialization is in a
\* new call with a valid DSN that found the slot empty, constructed a pool
\* and stored it.
C3_Witness ==
    \E p \in Procs :
        /\ InConnection(p) /\ pc[p] = "acquire"
        /\ seen[p] = 0 /\ uri[p] = "valid"
        /\ ret[p].err \in {ParseErr, ConstructErr}
        /\ events[p] = <<"parse", "construct", "store", "load">>

\* What a call that found the slot non-empty has done, and what it returns.
C4_Ready ==
    \A p \in Procs :
        (InConnection(p) /\ seen[p] # 0)
          => /\ pc[p] \in {"load", "acquire", "idle"}
             /\ IsPrefix(events[p], <<"load", "acquire">>)
             /\ logged[p] = <<>>
             /\ pc[p] = "idle"
                  => /\ events[p] = <<"load", "acquire">>
                     /\ loaded[p] \in 1 .. Len(pools)
                     /\ \/ ret[p] = [conn |-> loaded[p], err |-> NoErr]
                        \/ ret[p] = [conn |-> 0, err |-> AcquireErr]

\* Its steps leave the slot as it is, and its load reads the slot.
C4_LoadStep ==
    \A p \in Procs :
        (InConnection(p) /\ seen[p] # 0 /\ pc[p] # "idle" /\ pc'[p] # pc[p])
          => /\ Pool' = Pool
             /\ pc[p] = "load" => loaded'[p] = Pool

\* C4: a Connection call that finds the slot non-empty parses nothing,
\* constructs nothing, writes no slot and logs nothing, whatever its DSN is:
\* it loads the slot and calls Acquire on the pool the slot holds at that
\* load, and returns what Acquire gave.
C4_ReadyCallsOnlyAcquire == []C4_Ready /\ [][C4_LoadStep]_vars

\* C4's case: a call with a malformed DSN found the slot non-empty and
\* returned a lease of the pool in the slot.
C4_Witness ==
    \E p \in Procs :
        /\ ConnectionDone(p) /\ seen[p] # 0 /\ uri[p] = "malformed"
        /\ ret[p] = [conn |-> Pool, err |-> NoErr]
        /\ pools[Pool].cfg # uri[p]

\* C6: a Connection call parses at most once and constructs at most once;
\* the call that logged a failure has returned, with nothing attempted after
\* the step that failed; every call that finds the slot empty starts with a
\* parse of its own, whatever the goroutine's earlier calls returned.
C6_NoRetry ==
    \A p \in Procs :
        InConnection(p)
          => /\ Count(events[p], "parse") <= 1
             /\ Count(events[p], "construct") <= 1
             /\ logged[p] # <<>>
                  => /\ pc[p] = "idle"
                     /\ ret[p].err \in {ParseErr, ConstructErr}
                     /\ ret[p].err = ParseErr => events[p] = <<"parse">>
                     /\ ret[p].err = ConstructErr
                          => events[p] = <<"parse", "construct">>
             /\ (seen[p] = 0 /\ pc[p] # "parse")
                  => (events[p] # <<>> /\ events[p][1] = "parse")

\* C6's case: a goroutine whose last call failed at construction has parsed
\* afresh in a new call, and another call has returned from a failed parse.
C6_Witness ==
    \E p, q \in Procs :
        /\ InConnection(p) /\ pc[p] = "construct" /\ seen[p] = 0
        /\ ret[p].err = ConstructErr
        /\ events[p] = <<"parse">>
        /\ ConnectionDone(q) /\ ret[q].err = ParseErr /\ events[q] = <<"parse">>

\* C7: in a Disconnect call with a connection, the connection is released
\* exactly once, and after the rollback when there is a transaction, whatever
\* the rollback returned.
C7_RollbackThenRelease ==
    \A p \in Procs :
        InDisconnect(p)
          => /\ Count(events[p], "release") <= 1
             /\ Count(events[p], "rollback") <= 1
             /\ (Has(events[p], "release") /\ tx[p]) => events[p][1] = "rollback"
             /\ (pc[p] = "idle" /\ tx[p] /\ connection[p] # 0)
                  => events[p] = <<"rollback", "release">>
             /\ (pc[p] = "idle" /\ ~tx[p] /\ connection[p] # 0)
                  => events[p] = <<"release">>
             /\ (pc[p] = "idle" /\ connection[p] # 0) => held[p] = 0

\* C7's case: a Disconnect call whose rollback failed with an error other
\* than pgx.ErrTxClosed has released its connection.
C7_Witness ==
    \E p \in Procs :
        /\ DisconnectDone(p) /\ tx[p] /\ connection[p] # 0
        /\ txErr[p] = RollbackOther
        /\ events[p] = <<"rollback", "release">>
        /\ pools[connection[p]].leased = 0

\* C8: a Disconnect call with a transaction logs exactly one entry, chosen by
\* what the rollback returned: INFO for pgx.ErrTxClosed, ERROR for any other
\* error, INFO "rolled back" for nil; and it goes on to the release or
\* returns in all three cases.
C8_OneLogByOutcome ==
    \A p \in Procs :
        (InDisconnect(p) /\ tx[p] /\ pc[p] # "rollback")
          => /\ Len(logged[p]) = 1
             /\ txErr[p] = ErrTxClosed
                  => logged[p][1] = [level |-> "INFO",
                        msg |-> "Successfully Committed Database Transaction"]
             /\ txErr[p] = RollbackOther
                  => logged[p][1] = [level |-> "ERROR",
                        msg |-> "Error Rolling Back Transaction"]
             /\ txErr[p] = NoErr
                  => logged[p][1] = [level |-> "INFO",
                        msg |-> "Successfully Rolled Back Database Transaction"]
             /\ pc[p] \in {"release", "idle"}

\* C8's case: a Disconnect call whose rollback returned pgx.ErrTxClosed has
\* returned, with its one INFO entry.
C8_Witness ==
    \E p \in Procs :
        /\ DisconnectDone(p) /\ tx[p] /\ txErr[p] = ErrTxClosed
        /\ Len(logged[p]) = 1 /\ logged[p][1].level = "INFO"

\* What a Disconnect call does not do for a nil argument.
C9_Nil ==
    \A p \in Procs :
        InDisconnect(p)
          => /\ ~tx[p] => (~Has(events[p], "rollback") /\ logged[p] = <<>>)
             /\ connection[p] = 0 => ~Has(events[p], "release")
             /\ (~tx[p] /\ connection[p] = 0)
                  => (pc[p] = "idle" /\ events[p] = <<>>)

\* The step of a Disconnect(nil, nil): the one call that starts (calls grows)
\* and is over in the same step (no goroutine moves).
C9_NoopStep ==
    (calls' # calls /\ pc' = pc) => UNCHANGED <<Pool, pools, held, ret>>

\* C9: Disconnect with a nil transaction attempts no rollback and logs
\* nothing, with a nil connection it releases nothing, and with both nil it
\* returns at once, leaving the slot, the pools, the leases and the caller's
\* variables as they were.
C9_NilDisconnectIsNoop == []C9_Nil /\ [][C9_NoopStep]_vars

\* C9's case: a goroutine holding a lease of the pool in the slot has called
\* Disconnect(nil, nil), which returned.
C9_Witness ==
    \E p \in Procs :
        /\ DisconnectDone(p) /\ ~tx[p] /\ connection[p] = 0
        /\ events[p] = <<>> /\ logged[p] = <<>>
        /\ Pool # 0 /\ held[p] = Pool /\ pools[Pool].leased = 1

\* C10: a Connection call that fails at parsing or at construction has logged
\* exactly one entry, at ERROR level; a call that reached the acquisition has
\* logged nothing, whether it constructed the pool or not and whether Acquire
\* succeeded or not.
C10_LogsOnInitFailureOnly ==
    \A p \in Procs :
        InConnection(p)
          => /\ (pc[p] = "idle" /\ ret[p].err \in {ParseErr, ConstructErr})
                  => (Len(logged[p]) = 1 /\ logged[p][1].level = "ERROR")
             /\ (pc[p] = "idle" /\ ret[p].err = ParseErr) => logged[p] = <<LogParse>>
             /\ (pc[p] = "idle" /\ ret[p].err = ConstructErr)
                  => logged[p] = <<LogConstruct>>
             /\ Has(events[p], "load") => logged[p] = <<>>

\* C10's case: one call has returned a construction failure with its one
\* entry, and one that constructed the pool has returned an acquisition
\* failure with none.
C10_Witness ==
    \E p, q \in Procs :
        /\ ConnectionDone(p) /\ ret[p].err = ConstructErr
        /\ logged[p] = <<LogConstruct>>
        /\ ConnectionDone(q) /\ ret[q].err = AcquireErr
        /\ Has(events[q], "construct") /\ logged[q] = <<>>

\* C17: no Connection call acquires from an empty slot: a call about to load
\* the slot finds in it a pool that NewWithConfig returned, the pool it has
\* loaded is one, and no goroutine panics on a nil pool.
C17_NeverNilPool ==
    \A p \in Procs :
        /\ pc[p] # "panic"
        /\ pc[p] = "load" => Pool \in 1 .. Len(pools)
        /\ pc[p] = "acquire" => loaded[p] \in 1 .. Len(pools)
        /\ pc[p] = "store" => instance[p] \in 1 .. Len(pools)

\* C17's case: a call that found the slot empty has loaded a pool from it,
\* after another call that found it empty failed at construction.
C17_Witness ==
    \E p, q \in Procs :
        /\ InConnection(p) /\ pc[p] = "acquire" /\ seen[p] = 0
        /\ loaded[p] = Pool
        /\ ConnectionDone(q) /\ seen[q] = 0 /\ ret[q].err = ConstructErr

\* The next step of the Connection call goroutine p is in.
ConnectionStep(p) ==
    Parse(p) \/ NewWithConfig(p) \/ Store(p) \/ Load(p) \/ Acquire(p)

\* C18: a Connection call in progress can always take its next step,
\* whatever the other goroutines are doing, and it is over after at most one
\* parse, one construction, one store, one load and one acquire of its own.
C18_NoWaiting ==
    \A p \in Procs :
        InConnection(p)
          => /\ pc[p] \notin {"idle", "panic"} => ENABLED ConnectionStep(p)
             /\ \A x \in {"parse", "construct", "store", "load", "acquire"} :
                    Count(events[p], x) <= 1
             /\ \A i \in 1 .. Len(events[p]) :
                    events[p][i] \in {"parse", "construct", "store", "load", "acquire"}
             /\ Has(events[p], "acquire") => pc[p] = "idle"

\* C18's case: a goroutine is at its load of the slot while another one is
\* between its nil check and its store.
C18_Witness ==
    \E p, q \in Procs :
        /\ InConnection(p) /\ pc[p] = "load"
        /\ InConnection(q) /\ pc[q] \in {"parse", "construct", "store"}

\* C11: the query of DSN's result has no parameter with an empty or
\* whitespace-only value: every key DSN adds with such a value is absent from
\* it, and every key DSN adds with another value is in it with that value.
C11_NoBlankParams ==
    Called
      => LET ps   == Params(dsn)
             adds == Added(build)
         IN  /\ \A pr \in ps : ~Blank(pr[2])
             /\ \A i \in 1 .. Len(adds) :
                  IF Blank(adds[i][2])
                    THEN adds[i][1] \notin KeysOf(ps)
                    ELSE ValuesOf(ps, adds[i][1]) = {adds[i][2]}

\* C11's case: with PGUSER whitespace-only and PGPASSWORD a value that needs
\* escaping, the result has no user and has the password as it was set.
C11_Witness ==
    /\ Called
    /\ "PGUSER" \in DOMAIN env /\ env["PGUSER"] = Blanks
    /\ "PGPASSWORD" \in DOMAIN env /\ env["PGPASSWORD"] = Special
    /\ "user" \notin KeysOf(Params(dsn))
    /\ ValuesOf(Params(dsn), "password") = {Special}

IsSet(k, v) == k \in DOMAIN env /\ env[k] = v

TenKeys == {"user", "password", "port", "connect_timeout", "application_name",
            "pool_max_conns", "pool_min_conns", "sslmode", "sslcertmode",
            "sslrootcert"}

ValueFor(k) ==
    CASE k = "user"             -> Getenv("PGUSER")
      [] k = "password"         -> Getenv("PGPASSWORD")
      [] k = "port"             -> Port
      [] k = "connect_timeout"  -> Timeout
      [] k = "application_name" -> Getenv("PGAPPNAME")
      [] k = "pool_max_conns"   -> MaxConnections
      [] k = "pool_min_conns"   -> MinConnections
      [] k = "sslmode"          -> Getenv("PGSSLMODE")
      [] k = "sslcertmode"      -> Getenv("PGSSLCERTMODE")
      [] k = "sslrootcert"      -> Getenv("PGSSLROOTCERT")

\* C13: the keys of the query are exactly those of the ten keys whose value
\* from the environment is not empty (read as: has a character that is not
\* whitespace, the reading C11 gives), sslcertmode with PGSSLCERTMODE among
\* them, and no other key.
C13_ExactKeys ==
    Called => KeysOf(Params(dsn)) = {k \in TenKeys : ~Blank(ValueFor(k))}

DigitValue(c) == CHOOSE d \in 0 .. 9 : Digit(d) = c

\* The number a decimal string with no sign stands for.
RECURSIVE Atoi(_)
Atoi(v) ==
    IF v = <<>> THEN 0
    ELSE 10 * Atoi(SubSeq(v, 1, Len(v) - 1)) + DigitValue(v[Len(v)])

IsDecimal(v) ==
    /\ v # <<>>
    /\ \A i \in 1 .. Len(v) : \E d \in 0 .. 9 : Digit(d) = v[i]
    /\ Len(v) > 1 => v[1] # "0"

\* C14: with PGPOOLMAXCONNECTIONS absent (or empty) pool_max_conns is the
\* decimal string of the larger of 4 and runtime.NumCPU(); set to a value
\* that has a character that is not whitespace, it is that value.
C14_PoolMaxConns ==
    Called
      => LET vs == ValuesOf(Params(dsn), "pool_max_conns")
             v  == Getenv("PGPOOLMAXCONNECTIONS")
         IN  /\ v = <<>>
                  => /\ Cardinality(vs) = 1
                     /\ \A x \in vs : /\ IsDecimal(x)
                                      /\ Atoi(x) = (IF cpu > 4 THEN cpu ELSE 4)
             /\ ~Blank(v) => vs = {v}

\* C14's case: on 16 processing units, with PGPOOLMAXCONNECTIONS not set,
\* pool_max_conns is "16".
C14_Witness ==
    /\ Called
    /\ cpu = 16
    /\ "PGPOOLMAXCONNECTIONS" \notin DOMAIN env
    /\ ValuesOf(Params(dsn), "pool_max_conns") = {<<"1", "6">>}

\* C15: the scheme of DSN's result is postgresql; its host is "localhost"
\* exactly when PGHOST is absent, empty or "localhost", and is the value of
\* PGHOST whenever that is not empty, a whitespace-only value included.
C15_Host ==
    Called
      => LET h == Getenv("PGHOST")
         IN  /\ SchemeOf(dsn) = "postgresql"
             /\ SubSeq(dsn, 2, 4) = <<":", "/", "/">>
             /\ HostOf(dsn) = Localhost <=> (h = <<>> \/ h = Localhost)
             /\ h # <<>> => HostOf(dsn) = h

\* C15's case: a whitespace-only PGHOST is the host of the result.
C15_Witness ==
    /\ Called
    /\ IsSet("PGHOST", Blanks)
    /\ HostOf(dsn) = Blanks

\* The keys with a documented default: the variable and the default.
Defaulted ==
    { <<"port", "PGPORT", <<"5", "4", "3", "2">> >>,
      <<"connect_timeout", "PGCONNECT_TIMEOUT", <<"1", "0">> >>,
      <<"pool_min_conns", "PGPOOLMINCONNECTIONS", <<"1">> >>,
      <<"pool_max_conns", "PGPOOLMAXCONNECTIONS",
            Itoa(IF cpu > 4 THEN cpu ELSE 4)>> }

\* C16: for each key with a documented default, when its variable is absent,
\* empty or whitespace-only the result has the key with the default.
C16_DefaultWhenBlank ==
    Called
      => \A d \in Defaulted :
            Blank(Getenv(d[2])) => ValuesOf(Params(dsn), d[1]) = {d[3]}

====
